---- MODULE Spec2Model ----
(***************************************************************************)
(* Model of the promo-code QR generator.                                   *)
(*   qr_generator.py   generate_qr_codes: URL composition, per-code        *)
(*                     encoding and artifact files, document step          *)
(*   pdf_compiler.py   compile_qr_codes_to_pdf: directory scan, sort,      *)
(*                     sizing pass, canvas pages, save                     *)
(* Text is a sequence of one-character strings, so that concatenation,     *)
(* suffix tests and the ordering used by list.sort() are computed.         *)
(***************************************************************************)
EXTENDS Integers, Sequences, FiniteSets, TLC

VARIABLES
    font_env,         \* the machine's fonts: which entries ImageFont.truetype opens
    font,             \* the local font of the png branch (lines 155-190)
    qr_data,          \* qr_rgba.getdata() (line 133)
    new_data,         \* the list put back with putdata (lines 134-141)
    tool,             \* which entry point runs: "generate" or "compile"
    pc,               \* position in the running function
    input_ext,        \* extension of input_file
    input_ok,         \* FALSE: reading the input file raises
    input_lines,      \* content of the input file, one entry per line / row
    base_in,          \* the base_url argument as passed
    base_url,         \* the local base_url (rebound at lines 94-98)
    utm_param_name,
    create_svg, create_png, create_pdf, png_size,
    pdf_prepared_for, pdf_title,
    PDF_SUPPORT,      \* module flag set by the import at lines 19-23
    promo_codes,      \* the list read from the input
    idx,              \* 1-based position of the for loops over promo_codes
    full_url,         \* the URL composed in the current iteration
    success,          \* return value of compile_qr_codes_to_pdf
    dirs,             \* directories that exist
    files,            \* files[d]: file name -> artifact, for each directory d
    pdf,              \* the file at the target document path
    dirs0, files0, pdf0,   \* the file system when the tool was started
    written,          \* artifact files written by this run, in order
    input_dir,        \* compile_qr_codes_to_pdf: its (rebound) input_dir
    use_png,          \* compile_qr_codes_to_pdf: its use_png argument
    qr_files,         \* compile_qr_codes_to_pdf: the sorted file list
    pages, page_sizes \* compile_qr_codes_to_pdf: the sizing pass's lists

vars == <<tool, pc, input_ext, input_ok, input_lines, base_in, base_url,
          utm_param_name, create_svg, create_png, create_pdf, png_size,
          pdf_prepared_for, pdf_title, PDF_SUPPORT, promo_codes, idx,
          full_url, success, dirs, files, pdf, dirs0, files0, pdf0, written,
          input_dir, use_png, qr_files, pages, page_sizes,
          font_env, font, qr_data, new_data>>

(***************************************************************************)
(* Bounds of the model.                                                    *)
(***************************************************************************)
\* longest input file, in lines
MaxCodes == 3
\* longest base URL drawn for the URL composer
MaxBaseLen == 3
\* largest QR version of the scaled-down symbol table
MaxVersion == 3
\* byte capacity gained per version in the scaled-down symbol table
CapacityStep == 3

(***************************************************************************)
(* Text                                                                    *)
(***************************************************************************)
\* code point of a character (Python compares str by code point)
Ord(ch) ==
    CASE ch = "&" -> 38
      [] ch = "-" -> 45
      [] ch = "." -> 46
      [] ch = "=" -> 61
      [] ch = "?" -> 63
      [] ch = "A" -> 65
      [] ch = "B" -> 66
      [] ch = "Z" -> 90
      [] ch = "g" -> 103
      [] ch = "k" -> 107
      [] ch = "n" -> 110
      [] ch = "p" -> 112
      [] ch = "s" -> 115
      [] ch = "u" -> 117
      [] ch = "v" -> 118

\* '?' in s, and more generally ch in s
Contains(s, ch) == \E i \in 1..Len(s) : s[i] = ch

\* s.endswith(t)
EndsWith(s, t) ==
    /\ Len(t) <= Len(s)
    /\ SubSeq(s, Len(s) - Len(t) + 1, Len(s)) = t

\* s < t for Python str
RECURSIVE StrLess(_, _)
StrLess(s, t) ==
    IF t = <<>> THEN FALSE
    ELSE IF s = <<>> THEN TRUE
    ELSE IF s[1] # t[1] THEN Ord(s[1]) < Ord(t[1])
    ELSE StrLess(Tail(s), Tail(t))

\* all sequences over S of length at most n
SeqsUpTo(S, n) == UNION { [1..k -> S] : k \in 0..n }

\* line.strip() for the blank character " "
RECURSIVE LStrip(_)
LStrip(s) == IF s # <<>> /\ s[1] = " " THEN LStrip(Tail(s)) ELSE s

RECURSIVE RStrip(_)
RStrip(s) ==
    IF s # <<>> /\ s[Len(s)] = " " THEN RStrip(SubSeq(s, 1, Len(s) - 1)) ELSE s

Strip(s) == RStrip(LStrip(s))

(***************************************************************************)
(* URL composition (qr_generator.py lines 94-103)                          *)
(***************************************************************************)
\* the delimiter appended to base_url before the loop
DelimiterAlways(base) == IF ~Contains(base, "?") THEN <<"?">> ELSE <<"&">>

Delimiter(base) ==
    IF ~Contains(base, "?") THEN <<"?">>
    ELSE IF ~EndsWith(base, <<"?">>) /\ ~EndsWith(base, <<"&">>) THEN <<"&">>
    ELSE <<>>

\* f"{base_url}{utm_param_name}={promo_code}"
FullUrlEscaped(base, param, code) ==
    base \o param \o <<"=">> \o SelectSeq(code, LAMBDA ch : ch \notin {"&", "?"})

FullUrl(base, param, code) == base \o param \o <<"=">> \o code

(***************************************************************************)
(* QR symbol (qr_generator.py lines 106-113).  The library's capacity      *)
(* table is scaled down: version v holds CapacityStep * v bytes, and       *)
(* versions run from 1 to MaxVersion.                                      *)
(***************************************************************************)
box_size == 10
border == 4

DataCapacity(v) == CapacityStep * v

\* qr.make(fit=True) succeeds; otherwise it raises DataOverflowError
Fits(url) == Len(url) <= DataCapacity(MaxVersion)

\* the smallest version, from version=1 up, that holds the data
BestFit(url) ==
    CHOOSE v \in 1..MaxVersion :
        /\ Len(url) <= DataCapacity(v)
        /\ \A w \in 1..(v - 1) : Len(url) > DataCapacity(w)

ModulesCount(v) == v * 4 + 17

\* side of the rendered symbol: (modules + 2 * border) * box_size
PixelSize(v) == (ModulesCount(v) + 2 * border) * box_size

(***************************************************************************)
(* Artifacts                                                               *)
(***************************************************************************)
scale_factor == 8
spacing == 5

\* the divisor the comment of line 146 says was used before
font_sizeDivisor8(S) == (S \div 8) * scale_factor

\* font_size = (png_size // 12) * scale_factor (line 146)
font_size(S) == (S \div 12) * scale_factor
text_height(S) == font_size(S) * 2

\* qr.make_image(image_factory=SvgFragmentImage) as saved at line 119
SvgArtifact(url) ==
    [fmt |-> "svg", width |-> PixelSize(BestFit(url)),
     height |-> PixelSize(BestFit(url)), payload |-> url, readable |-> TRUE]

\* combined_img as saved at line 245
PngArtifact(url, S) ==
    [fmt |-> "png", width |-> S,
     height |-> S + (text_height(S) \div scale_factor) + spacing,
     payload |-> url, readable |-> TRUE]

SvgExt == <<".", "s", "v", "g">>
PngExt == <<".", "p", "n", "g">>

(***************************************************************************)
(* File system                                                             *)
(***************************************************************************)
output_dir == <<"out">>
Join(d, name) == Append(d, name)
svg_dir == Join(output_dir, "svg")
png_dir == Join(output_dir, "png")
temp_svg_dir == Join(output_dir, "temp_svg")
MissingDir == <<"missing">>
AllDirs == {output_dir, svg_dir, png_dir, temp_svg_dir, MissingDir}

NoFiles == [d \in AllDirs |-> <<>>]
NoPdf == [exists |-> FALSE, pages |-> <<>>]

\* img.save(path): creates the file or replaces the one of that name
WriteFileKeepOld(fs, d, name, art) == [fs EXCEPT ![d] = @ @@ (name :> art)]

WriteFile(fs, d, name, art) == [fs EXCEPT ![d] = (name :> art) @@ @]

(***************************************************************************)
(* Inputs                                                                  *)
(***************************************************************************)
Codes == { <<"A">>, <<"A", "-">>, <<"A", "A", "A", "A">> }
\* a line of the text file that holds only white space
Blank == <<" ">>
\* base URLs of the runs: without and with a query component
RunBases == { <<"u">>, <<"u", "?", "k">> }
DefaultTitle == "QR Codes Collection"
Titles == { DefaultTitle, "Spring Promo" }
\* "" stands for prepared_for=None: line 138 tests its truth value only
PreparedFor == { "", "Acme Corp" }
PngSizes == { 300, 50 }

\* a code whose artifact file names start with a dot: glob's "*" skips them
HiddenCode == <<".", "A">>

InputOptions ==
    { [ext |-> ".dat", ok |-> TRUE, lines |-> <<>>],
      [ext |-> ".txt", ok |-> TRUE, lines |-> <<HiddenCode>>],
      [ext |-> ".csv", ok |-> FALSE, lines |-> <<>>],
      [ext |-> ".txt", ok |-> FALSE, lines |-> <<>>] }
    \cup { [ext |-> ".csv", ok |-> TRUE, lines |-> l] : l \in SeqsUpTo(Codes, MaxCodes) }
    \cup { [ext |-> ".txt", ok |-> TRUE, lines |-> l] :
               l \in SeqsUpTo(Codes \cup {Blank}, MaxCodes) }

FormatOptions ==
    { [svg |-> s, png |-> FALSE, size |-> 300] : s \in BOOLEAN }
    \cup { [svg |-> s, png |-> TRUE, size |-> z] : s \in BOOLEAN, z \in PngSizes }

CoverOptions == { [title |-> t, prepared |-> n] : t \in Titles, n \in PreparedFor }
NoCover == [title |-> DefaultTitle, prepared |-> ""]

\* the covers of the runs: nothing supplied, or a title and a recipient
RunCovers == { NoCover, [title |-> "Spring Promo", prepared |-> "Acme Corp"] }

PdfOptions ==
    { [pdf |-> FALSE, support |-> TRUE, cover |-> NoCover],
      [pdf |-> TRUE, support |-> FALSE, cover |-> NoCover] }
    \cup { [pdf |-> TRUE, support |-> TRUE, cover |-> c] : c \in RunCovers }

\* artifacts left in the output location by earlier runs
Stale(f, w, h, ok) ==
    [fmt |-> f, width |-> w, height |-> h, payload |-> <<"o", "l", "d">>, readable |-> ok]

\* a document left at the target path by an earlier run
OldPdf == [exists |-> TRUE, pages |-> << [size |-> <<612, 792>>, items |-> <<>>] >>]

FsEmpty == [dirs |-> {}, files |-> NoFiles, pdf |-> NoPdf]

FsEarlierRun ==
    [dirs |-> {output_dir, svg_dir, png_dir},
     files |-> [NoFiles EXCEPT
                  ![svg_dir] = (<<"Z">> \o SvgExt) :> Stale("svg", 330, 330, TRUE),
                  ![png_dir] = (<<"Z">> \o PngExt) :> Stale("png", 50, 63, TRUE)],
     pdf |-> OldPdf]

FsCorrupt ==
    [dirs |-> {output_dir, svg_dir},
     files |-> [NoFiles EXCEPT
                  ![svg_dir] = ((<<"A">> \o SvgExt) :> Stale("svg", 290, 290, TRUE))
                               @@ ((<<"B">> \o SvgExt) :> Stale("svg", 0, 0, FALSE))],
     pdf |-> OldPdf]

FsEmptySvgDir ==
    [dirs |-> {output_dir, svg_dir},
     files |-> [NoFiles EXCEPT
                  ![output_dir] = ((<<"B">> \o SvgExt) :> Stale("svg", 330, 330, TRUE))
                                  @@ ((<<"A">> \o PngExt) :> Stale("png", 300, 355, TRUE))],
     pdf |-> NoPdf]

FsFlat ==
    [dirs |-> {output_dir},
     files |-> [NoFiles EXCEPT
                  ![output_dir] = ((<<"B">> \o SvgExt) :> Stale("svg", 330, 330, TRUE))
                                  @@ ((<<"A", "-">> \o SvgExt) :> Stale("svg", 290, 290, TRUE))
                                  @@ ((<<"A">> \o SvgExt) :> Stale("svg", 370, 370, TRUE))
                                  @@ ((<<"Z">> \o PngExt) :> Stale("png", 50, 63, TRUE))],
     pdf |-> OldPdf]

RunFileSystems == { FsEmpty, FsEarlierRun, FsCorrupt }
CompileFileSystems == { FsEmpty, FsEarlierRun, FsCorrupt, FsEmptySvgDir, FsFlat }
CompileDirs == { output_dir, svg_dir, MissingDir }

(***************************************************************************)
(* Initial states: one invocation of generate_qr_codes, or one of          *)
(* compile_qr_codes_to_pdf from its own command line.                      *)
(***************************************************************************)
InitFs(fs) ==
    /\ dirs = fs.dirs /\ files = fs.files /\ pdf = fs.pdf
    /\ dirs0 = fs.dirs /\ files0 = fs.files /\ pdf0 = fs.pdf

\* what a black-on-white symbol holds after convert('RGBA') (line 130): dark
\* and light pixels, here one of each
ModulePixels == << <<0, 0, 0, 255>>, <<255, 255, 255, 255>> >>

\* a machine on which only DejaVuSans opens
DejaVuOnly == [installed |-> {"DejaVuSans"}, broken |-> {}]

InitLocals ==
    /\ promo_codes = <<>> /\ idx = 1 /\ full_url = <<>> /\ success = FALSE
    /\ font_env = DejaVuOnly /\ font = "None"
    /\ qr_data = ModulePixels /\ new_data = <<>>
    /\ written = <<>> /\ qr_files = <<>> /\ pages = <<>> /\ page_sizes = <<>>

InitGenerate ==
    /\ tool = "generate" /\ pc = "makedirs"
    /\ \E i \in InputOptions :
          input_ext = i.ext /\ input_ok = i.ok /\ input_lines = i.lines
    /\ base_in \in RunBases /\ base_url = base_in
    /\ utm_param_name = <<"p">>
    /\ \E f \in FormatOptions :
          create_svg = f.svg /\ create_png = f.png /\ png_size = f.size
    /\ \E o \in PdfOptions :
          /\ create_pdf = o.pdf /\ PDF_SUPPORT = o.support
          /\ pdf_title = o.cover.title /\ pdf_prepared_for = o.cover.prepared
    /\ \E fs \in RunFileSystems : InitFs(fs)
    /\ input_dir = output_dir /\ use_png = FALSE
    /\ InitLocals

InitCompile ==
    /\ tool = "compile" /\ pc = "c_scan"
    /\ input_ext = "" /\ input_ok = TRUE /\ input_lines = <<>>
    /\ base_in = <<>> /\ base_url = <<>> /\ utm_param_name = <<>>
    /\ create_svg = FALSE /\ create_png = FALSE /\ png_size = 300
    /\ create_pdf = FALSE /\ PDF_SUPPORT = TRUE
    /\ \E c \in CoverOptions : pdf_title = c.title /\ pdf_prepared_for = c.prepared
    /\ \E fs \in CompileFileSystems : InitFs(fs)
    /\ input_dir \in CompileDirs /\ use_png \in BOOLEAN
    /\ InitLocals

Init == InitGenerate \/ InitCompile

(***************************************************************************)
(* generate_qr_codes (qr_generator.py lines 26-312)                        *)
(***************************************************************************)
fsVars == <<dirs, files, pdf>>
snapVars == <<dirs0, files0, pdf0>>
argVars == <<tool, input_ext, input_ok, input_lines, base_in, utm_param_name,
             create_svg, create_png, create_pdf, png_size, pdf_prepared_for,
             pdf_title, PDF_SUPPORT, font_env, qr_data>>
compileVars == <<input_dir, use_png, qr_files, pages, page_sizes, success>>

\* the directories created before the input is read (lines 47-59)
DirsMade(svg, png) ==
    {output_dir}
    \cup (IF svg THEN {svg_dir} ELSE {})
    \cup (IF png THEN {png_dir} ELSE {})

\* lines 47-59: os.makedirs(..., exist_ok=True)
MakeDirs ==
    /\ pc = "makedirs"
    /\ dirs' = dirs \cup DirsMade(create_svg, create_png)
    /\ pc' = "read"
    /\ UNCHANGED <<argVars, snapVars, font, new_data, compileVars, files, pdf, base_url,
                   promo_codes, idx, full_url, written>>

\* the rows of the 'promo_code' column / the stripped non-empty lines
ReadCodes(ext, lines) ==
    IF ext = ".csv" THEN lines
    ELSE SelectSeq([i \in 1..Len(lines) |-> Strip(lines[i])], LAMBDA l : l # <<>>)

\* lines 61-92: read the codes; return on an unsupported type, on a read
\* error and on an empty list
ReadInput ==
    /\ pc = "read"
    /\ IF input_ext \notin {".csv", ".txt"} \/ ~input_ok
       THEN promo_codes' = promo_codes /\ pc' = "done"
       ELSE /\ promo_codes' = ReadCodes(input_ext, input_lines)
            /\ pc' = IF promo_codes' = <<>> THEN "done" ELSE "delimiter"
    /\ UNCHANGED <<argVars, snapVars, font, new_data, compileVars, fsVars, base_url, idx,
                   full_url, written>>

\* lines 94-98: base_url += '?' or '&'
AppendDelimiter ==
    /\ pc = "delimiter"
    /\ base_url' = base_url \o Delimiter(base_url)
    /\ idx' = 1
    /\ pc' = "loop"
    /\ UNCHANGED <<argVars, snapVars, font, new_data, compileVars, fsVars, promo_codes,
                   full_url, written>>

\* the files one iteration of the loop saves, in order (lines 115-120, 122-246)
ArtifactWrites(code, url, svg, png, size) ==
    (IF svg THEN << [dir |-> svg_dir, name |-> code \o SvgExt, art |-> SvgArtifact(url)] >>
     ELSE <<>>)
    \o (IF png THEN << [dir |-> png_dir, name |-> code \o PngExt,
                        art |-> PngArtifact(url, size)] >>
        ELSE <<>>)

RECURSIVE ApplyWrites(_, _)
ApplyWrites(fs, ws) ==
    IF ws = <<>> THEN fs
    ELSE ApplyWrites(WriteFile(fs, ws[1].dir, ws[1].name, ws[1].art), Tail(ws))

\* the for loop at line 101 has a next element
LoopHasNextFirstOnly(i, codes) == i <= 1 /\ i <= Len(codes)

LoopHasNext(i, codes) == i <= Len(codes)

(***************************************************************************)
(* The png branch: transparency and font resolution                        *)
(***************************************************************************)
\* a pixel of qr_rgba is <<red, green, blue, alpha>>
\* the test of line 137 with >= in place of >
MakeTransparentAtLeast(item) ==
    IF item[1] >= 240 /\ item[2] >= 240 /\ item[3] >= 240
    THEN <<255, 255, 255, 0>>
    ELSE item

\* lines 137-140: white or close to white becomes transparent white
MakeTransparent(item) ==
    IF item[1] > 240 /\ item[2] > 240 /\ item[3] > 240
    THEN <<255, 255, 255, 0>>
    ELSE item

\* lines 134-141: the loop over qr_data
NewData(data) == [k \in 1..Len(data) |-> MakeTransparent(data[k])]

font_names == <<"Arial", "Helvetica", "DejaVuSans", "Verdana", "Tahoma",
                "SF Pro Text", "Roboto", "Open Sans">>

mac_fonts == <<"/System/Library/Fonts/SFNSText-Regular.otf",
               "/System/Library/Fonts/Helvetica.ttc",
               "/Library/Fonts/Arial.ttf",
               "/System/Library/Fonts/SFNSDisplay.ttf",
               "/System/Library/Fonts/SFNSText.ttf">>

FontEntries == {font_names[k] : k \in 1..Len(font_names)}
                   \cup {mac_fonts[k] : k \in 1..Len(mac_fonts)}

\* ImageFont.truetype(entry, font_size) on a machine env: the font object
\* (named by its entry), IOError when the entry is not found, or an exception
\* that is not an IOError
truetype(entry, env) ==
    IF entry \in env.broken THEN "Exception"
    ELSE IF entry \in env.installed THEN entry
    ELSE "IOError"

\* for ... try: font = truetype(...); break / except IOError: continue
\* (lines 162-167 and 180-185): the font of the first entry that opens, "None"
\* when every entry raises IOError, "Exception" when another exception leaves
\* the loop
RECURSIVE TryFonts(_, _)
TryFonts(entries, env) ==
    IF entries = <<>> THEN "None"
    ELSE LET f == truetype(entries[1], env)
         IN IF f = "IOError" THEN TryFonts(Tail(entries), env) ELSE f

\* lines 155-190: the value of font after the resolution; "Exception" when the
\* exception leaves generate_qr_codes, "default" for ImageFont.load_default()
ResolveFont(env) ==
    LET first == TryFonts(font_names, env)
    IN IF first # "None" THEN first
       ELSE LET second == TryFonts(mac_fonts, env)
            IN IF second = "Exception" THEN "default" ELSE second

\* lines 101-246, one iteration: compose the URL, encode it (DataOverflowError
\* is not caught and leaves generate_qr_codes), save the svg, then for the png
\* make the background transparent, resolve the font (an exception of the
\* first loop that is not an IOError is not caught) and save
GenerateCode ==
    /\ pc = "loop"
    /\ LoopHasNext(idx, promo_codes)
    /\ LET code == promo_codes[idx]
           url == FullUrl(base_url, utm_param_name, code)
           ws == ArtifactWrites(code, url, create_svg, create_png, png_size)
           svgws == ArtifactWrites(code, url, create_svg, FALSE, png_size)
           resolved == ResolveFont(font_env)
       IN /\ full_url' = url
          /\ IF ~Fits(url)
             THEN /\ pc' = "raised"
                  /\ UNCHANGED <<files, written, idx, font, new_data>>
             ELSE IF create_png /\ resolved = "Exception"
             THEN /\ files' = ApplyWrites(files, svgws)
                  /\ written' = written \o svgws
                  /\ new_data' = NewData(qr_data)
                  /\ font' = "None"
                  /\ pc' = "raised"
                  /\ UNCHANGED idx
             ELSE /\ files' = ApplyWrites(files, ws)
                  /\ written' = written \o ws
                  /\ new_data' = IF create_png THEN NewData(qr_data) ELSE new_data
                  /\ font' = IF create_png THEN resolved ELSE font
                  /\ idx' = idx + 1
                  /\ pc' = "loop"
    /\ UNCHANGED <<argVars, snapVars, compileVars, dirs, pdf, base_url, promo_codes>>

\* use_png = not create_svg and create_png (line 262)
UsePng(svg, png) == ~svg /\ png

\* lines 248-265, 294-305, 311-312: after the loop; the document step starts
\* when create_pdf and PDF_SUPPORT, on the directory of the chosen format
EndLoop ==
    /\ pc = "loop"
    /\ ~LoopHasNext(idx, promo_codes)
    /\ IF create_pdf /\ PDF_SUPPORT
       THEN /\ use_png' = UsePng(create_svg, create_png)
            /\ input_dir' = output_dir
            /\ pc' = IF ~create_svg /\ ~create_png THEN "temp_mkdir" ELSE "c_scan"
       ELSE /\ pc' = "done"
            /\ UNCHANGED <<use_png, input_dir>>
    /\ UNCHANGED <<argVars, snapVars, font, new_data, fsVars, base_url, promo_codes, idx, full_url,
                   written, qr_files, pages, page_sizes, success>>

\* lines 267-268: os.makedirs(temp_svg_dir, exist_ok=True)
MakeTempDir ==
    /\ pc = "temp_mkdir"
    /\ dirs' = dirs \cup {temp_svg_dir}
    /\ idx' = 1
    /\ pc' = "temp_loop"
    /\ UNCHANGED <<argVars, snapVars, font, new_data, compileVars, files, pdf, base_url,
                   promo_codes, full_url, written>>

\* lines 270-283, one iteration: a temporary vector artifact
GenerateTemp ==
    /\ pc = "temp_loop"
    /\ LoopHasNext(idx, promo_codes)
    /\ LET code == promo_codes[idx]
           url == FullUrl(base_url, utm_param_name, code)
           ws == << [dir |-> temp_svg_dir, name |-> code \o SvgExt,
                     art |-> SvgArtifact(url)] >>
       IN /\ full_url' = url
          /\ IF ~Fits(url)
             THEN /\ pc' = "raised"
                  /\ UNCHANGED <<files, written, idx>>
             ELSE /\ files' = ApplyWrites(files, ws)
                  /\ written' = written \o ws
                  /\ idx' = idx + 1
                  /\ pc' = "temp_loop"
    /\ UNCHANGED <<argVars, snapVars, font, new_data, compileVars, dirs, pdf, base_url, promo_codes>>

\* lines 285-289: compile_qr_codes_to_pdf(temp_svg_dir, ...)
EndTempLoop ==
    /\ pc = "temp_loop"
    /\ ~LoopHasNext(idx, promo_codes)
    /\ input_dir' = temp_svg_dir
    /\ use_png' = FALSE
    /\ pc' = "c_scan"
    /\ UNCHANGED <<argVars, snapVars, font, new_data, fsVars, base_url, promo_codes, idx,
                   full_url, written, qr_files, pages, page_sizes, success>>

\* lines 291-293: shutil.rmtree(temp_svg_dir)
Cleanup ==
    /\ pc = "cleanup"
    /\ dirs' = dirs \ {temp_svg_dir}
    /\ files' = [files EXCEPT ![temp_svg_dir] = <<>>]
    /\ pc' = "done"
    /\ UNCHANGED <<argVars, snapVars, font, new_data, compileVars, pdf, base_url, promo_codes,
                   idx, full_url, written>>

(***************************************************************************)
(* compile_qr_codes_to_pdf (pdf_compiler.py lines 23-184)                  *)
(***************************************************************************)
letter == <<612, 792>>

file_format(png) == IF png THEN "png" ELSE "svg"
FormatExt(png) == IF png THEN PngExt ELSE SvgExt

\* lines 43-49: the directory that is scanned
ScanDir(d, png, ds) ==
    IF Join(d, file_format(png)) \in ds THEN Join(d, file_format(png)) ELSE d

\* glob.glob(os.path.join(input_dir, "*.<format>")): the names that match
Glob(fs, d, png) ==
    IF d \in DOMAIN fs
    THEN { n \in DOMAIN fs[d] : EndsWith(n, FormatExt(png)) /\ n[1] # "." }
    ELSE {}

\* the orders in which the directory listing may return a set of names
Orderings(S) ==
    { o \in [1..Cardinality(S) -> S] : \A i, j \in 1..Cardinality(S) : i # j => o[i] # o[j] }

RECURSIVE Insert(_, _)
Insert(sorted, x) ==
    IF sorted = <<>> THEN <<x>>
    ELSE IF StrLess(x, sorted[1]) THEN <<x>> \o sorted
    ELSE <<sorted[1]>> \o Insert(Tail(sorted), x)

RECURSIVE SortedOf(_)
SortedOf(l) == IF l = <<>> THEN <<>> ELSE Insert(SortedOf(Tail(l)), l[1])

\* qr_files.sort() (line 58)
SortFilesNone(l) == l

SortFiles(l) == SortedOf(l)

\* `if not qr_files` (line 53)
NoFilesFoundNever(found) == FALSE

NoFilesFound(found) == found = {}

\* where control goes when compile_qr_codes_to_pdf returns
ReturnPcNoCleanup == "done"

ReturnPc == IF tool = "generate" /\ ~create_svg /\ ~create_png THEN "cleanup" ELSE "done"

\* lines 37-58: directory checks, listing, sort; returns False when the
\* directory is missing or holds no file of the format
CompileScan ==
    /\ pc = "c_scan"
    /\ IF input_dir \notin dirs
       THEN /\ success' = FALSE /\ pc' = ReturnPc
            /\ UNCHANGED <<input_dir, qr_files>>
       ELSE LET d == ScanDir(input_dir, use_png, dirs)
                found == Glob(files, d, use_png)
            IN /\ input_dir' = d
               /\ IF NoFilesFound(found)
                  THEN /\ success' = FALSE /\ pc' = ReturnPc
                       /\ UNCHANGED qr_files
                  ELSE /\ \E o \in Orderings(found) : qr_files' = SortFiles(o)
                       /\ pc' = "c_load"
                       /\ UNCHANGED success
    /\ UNCHANGED <<argVars, snapVars, font, new_data, fsVars, base_url, promo_codes, idx,
                   full_url, written, use_png, pages, page_sizes>>

NoArt == [fmt |-> "none", width |-> 0, height |-> 0, payload |-> <<>>, readable |-> FALSE]

\* what is drawn on a page
ArtItem(kind, name, art) ==
    [kind |-> kind, what |-> "", str |-> "", a |-> 0, b |-> 0, file |-> name, art |-> art]
TextItem(what, str, a, b) ==
    [kind |-> "text", what |-> what, str |-> str, a |-> a, b |-> b, file |-> <<>>, art |-> NoArt]
PageBreak == ArtItem("pagebreak", <<>>, NoArt)

\* (width, height) as read back from the artifact (lines 75, 92-93)
ArtifactSizeSquare(art) == <<art.width, art.width>>

ArtifactSize(art) == <<art.width, art.height>>

\* lines 68-105: the content list of one file
PageContent(name, art, png, n) ==
    << ArtItem(IF png THEN "image" ELSE "drawing", name, art) >>
    \o (IF n > 1 THEN <<PageBreak>> ELSE <<>>)

\* Image(qr_file).imageWidth / svg2rlg(qr_file).width raises for one of the
\* files (lines 73-75, 89-93)
AnyUnreadableNever(arts) == FALSE

AnyUnreadable(arts) == \E i \in 1..Len(arts) : ~arts[i].readable

\* lines 60-105: the sizing pass; an artifact that cannot be read back raises
CompileLoad ==
    /\ pc = "c_load"
    /\ LET arts == [i \in 1..Len(qr_files) |-> files[input_dir][qr_files[i]]]
       IN IF AnyUnreadable(arts)
          THEN /\ pc' = "raised"
               /\ UNCHANGED <<pages, page_sizes>>
          ELSE /\ page_sizes' = [i \in 1..Len(qr_files) |-> ArtifactSize(arts[i])]
               /\ pages' = [i \in 1..Len(qr_files) |->
                               PageContent(qr_files[i], arts[i], use_png, Len(qr_files))]
               /\ pc' = "c_build"
    /\ UNCHANGED <<argVars, snapVars, font, new_data, fsVars, base_url, promo_codes, idx,
                   full_url, written, input_dir, use_png, qr_files, success>>

\* the canvas: current page size, operations of the open page, finished pages
Canvas == [pagesize |-> <<595, 842>>, code |-> <<>>, doc |-> <<>>]
setPageSize(c, size) == [c EXCEPT !.pagesize = size]
\* a PageBreak drawn with drawOn leaves no mark and starts no page
drawOn(c, item) == IF item.kind = "pagebreak" THEN c ELSE [c EXCEPT !.code = Append(@, item)]
showPage(c) ==
    [c EXCEPT !.doc = Append(@, [size |-> c.pagesize, items |-> c.code]), !.code = <<>>]
\* c.save() closes the open page when something was drawn on it
save(c) == IF c.code # <<>> THEN showPage(c).doc ELSE c.doc

RECURSIVE DrawAll(_, _)
DrawAll(c, items) == IF items = <<>> THEN c ELSE DrawAll(drawOn(c, items[1]), Tail(items))

\* lines 114-157: the title page
TitlePageNone(c, title, prepared, n) == c

TitlePage(c, title, prepared, n) ==
    showPage(DrawAll(setPageSize(c, letter),
        << TextItem("title", title, 0, 0),
           TextItem("date", "", 0, 0),
           TextItem("count", "", n, 0),
           TextItem("prepared_label", "Prepared For:", 0, 0),
           IF prepared # "" THEN TextItem("prepared_for", prepared, 0, 0)
                            ELSE ArtItem("line", <<>>, NoArt),
           TextItem("total_pages", "", n + 1, 0) >>))

\* lines 160-179: one page per (page_content, page_size), i counted from 0
RECURSIVE DrawPagesFromOne(_, _, _, _, _)
DrawPagesFromOne(c, pgs, sizes, i, n) ==
    IF i >= Len(pgs) \/ i >= Len(sizes) THEN c
    ELSE LET c1 == setPageSize(c, sizes[i + 1])
             c2 == DrawAll(c1, pgs[i + 1])
             c3 == drawOn(c2, TextItem("page_number", "", i + 1, n))
             c4 == IF i < Len(pgs) - 1 THEN showPage(c3) ELSE c3
         IN DrawPagesFromOne(c4, pgs, sizes, i + 1, n)

RECURSIVE DrawPages(_, _, _, _, _)
DrawPages(c, pgs, sizes, i, n) ==
    IF i >= Len(pgs) \/ i >= Len(sizes) THEN c
    ELSE LET c1 == setPageSize(c, sizes[i + 1])
             c2 == DrawAll(c1, pgs[i + 1])
             c3 == drawOn(c2, TextItem("page_number", "", i + 2, n + 1))
             c4 == IF i < Len(pgs) - 1 THEN showPage(c3) ELSE c3
         IN DrawPages(c4, pgs, sizes, i + 1, n)

\* lines 107-184: title page, artifact pages, save; returns True
CompileBuild ==
    /\ pc = "c_build"
    /\ LET n == Len(qr_files)
           c == DrawPages(TitlePage(Canvas, pdf_title, pdf_prepared_for, n),
                          pages, page_sizes, 0, n)
       IN pdf' = [exists |-> TRUE, pages |-> save(c)]
    /\ success' = TRUE
    /\ pc' = ReturnPc
    /\ UNCHANGED <<argVars, snapVars, font, new_data, dirs, files, base_url, promo_codes, idx,
                   full_url, written, input_dir, use_png, qr_files, pages, page_sizes>>

Next ==
    \/ MakeDirs
    \/ ReadInput
    \/ AppendDelimiter
    \/ GenerateCode
    \/ EndLoop
    \/ MakeTempDir
    \/ GenerateTemp
    \/ EndTempLoop
    \/ Cleanup
    \/ CompileScan
    \/ CompileLoad
    \/ CompileBuild

Spec == Init /\ [][Next]_vars

(***************************************************************************)
(* The URL composer on its own: generate_qr_codes from the point where the *)
(* codes are read, with one code and with bases, parameter names and codes *)
(* that hold the delimiter characters.                                     *)
(***************************************************************************)
UrlBases == SeqsUpTo({"u", "?", "&"}, MaxBaseLen)
UrlParams == { <<"p">>, <<"u", "k">> }
UrlCodes == { <<"A">>, <<"?", "A">>, <<"A", "&">> }

InitUrl ==
    /\ tool = "generate" /\ pc = "delimiter"
    /\ input_ext = ".txt" /\ input_ok = TRUE
    /\ input_lines \in { <<c>> : c \in UrlCodes }
    /\ promo_codes = input_lines
    /\ base_in \in UrlBases /\ base_url = base_in
    /\ utm_param_name \in UrlParams
    /\ create_svg = TRUE /\ create_png = FALSE /\ png_size = 300
    /\ create_pdf = FALSE /\ PDF_SUPPORT = TRUE
    /\ pdf_title = DefaultTitle /\ pdf_prepared_for = ""
    /\ dirs = {output_dir, svg_dir} /\ files = NoFiles /\ pdf = NoPdf
    /\ dirs0 = {} /\ files0 = NoFiles /\ pdf0 = NoPdf
    /\ input_dir = output_dir /\ use_png = FALSE
    /\ idx = 1 /\ full_url = <<>> /\ success = FALSE
    /\ written = <<>> /\ qr_files = <<>> /\ pages = <<>> /\ page_sizes = <<>>
    /\ font_env = DejaVuOnly /\ font = "None"
    /\ qr_data = ModulePixels /\ new_data = <<>>

NextUrl ==
    \/ AppendDelimiter
    \/ GenerateCode
    \/ EndLoop

SpecUrl == InitUrl /\ [][NextUrl]_vars

(***************************************************************************)
(* Properties                                                              *)
(***************************************************************************)
\* the loop has composed a URL: for the code at idx when the encoder raised,
\* for the one before idx otherwise
Composed == pc \in {"loop", "raised", "done"} /\ full_url # <<>>
ComposedCode == IF pc = "raised" THEN promo_codes[idx] ELSE promo_codes[idx - 1]

\* the delimiter as the contract words it
ContractDelimiter(b) ==
    IF \A i \in 1..Len(b) : b[i] # "?" THEN <<"?">>
    ELSE IF b[Len(b)] \notin {"?", "&"} THEN <<"&">>
    ELSE <<>>

\* C1: the composed URL is base + delimiter + param_name + "=" + code, with
\* delimiter "?" when base holds no "?", else "&" when base ends in neither
\* "?" nor "&", else empty; base and code are copied unchanged.
C1_UrlContract ==
    Composed =>
        full_url = base_in \o ContractDelimiter(base_in) \o utm_param_name
                      \o <<"=">> \o ComposedCode

\* C1 witness: a base that ends in "&" after a "?", and a code that holds "&"
C1_Witness ==
    /\ Composed
    /\ base_in = <<"u", "?", "&">>
    /\ full_url = <<"u", "?", "&", "p", "=", "A", "&">>

\* the characters on the two sides of the junction between the base as passed
\* and what was appended to it
DelimiterAppended == pc \in {"loop", "raised", "done"} /\ promo_codes # <<>>
Inserted == SubSeq(base_url, Len(base_in) + 1, Len(base_url))

\* C2: the inserted delimiter never stands next to a "?" or "&" that ends the
\* base ("??", "&&", "?&", "&?"), also for a base that ends in "&" and holds
\* no "?".
C2_NoAdjacency ==
    DelimiterAppended =>
        ~ /\ Inserted # <<>>
          /\ base_in # <<>>
          /\ base_in[Len(base_in)] \in {"?", "&"}
          /\ Inserted[1] \in {"?", "&"}

\* C3 as stated: exactly one delimiter character is inserted, "?" when the
\* base has no query component and "&" otherwise.
C3_ExactlyOne ==
    DelimiterAppended =>
        base_url = base_in \o (IF Contains(base_in, "?") THEN <<"&">> ELSE <<"?">>)

\* C3 amended: at most one delimiter character is inserted: "?" when the base
\* holds no "?", "&" when it holds one and ends in neither "?" nor "&", and
\* none when it holds one and already ends in "?" or "&"; in every case the
\* parameter name is preceded by exactly that one "?" or "&".
C3_AtMostOne ==
    DelimiterAppended =>
        /\ SubSeq(base_url, 1, Len(base_in)) = base_in
        /\ Len(Inserted) <= 1
        /\ ~Contains(base_in, "?") => Inserted = <<"?">>
        /\ Contains(base_in, "?") =>
              IF base_in[Len(base_in)] \in {"?", "&"}
              THEN Inserted = <<>>
              ELSE Inserted = <<"&">>
        /\ base_url[Len(base_url)] \in {"?", "&"}

\* C3 witness: a base that already ends in "?" gets no delimiter
C3_Witness ==
    /\ DelimiterAppended
    /\ base_in = <<"u", "?">>
    /\ base_url = base_in

\* compile_qr_codes_to_pdf has returned True and the artifacts it read are
\* still on disk (the temporary directory is removed at pc = "cleanup")
Assembled ==
    /\ success
    /\ \/ pc = "cleanup"
       \/ pc = "done" /\ input_dir # temp_svg_dir

\* the caller supplied cover metadata: a title of its own or a recipient
CoverSupplied == pdf_title # DefaultTitle \/ pdf_prepared_for # ""

\* file names of the artifact pages of the document, in page order
PageFiles == [k \in 1..(Len(pdf.pages) - 1) |-> pdf.pages[k + 1].items[1].file]

\* C4 as stated: page count = (1 if cover metadata is present, else 0) + the
\* artifact count, so two artifacts without cover metadata give 2 pages.
C4_PageCount ==
    Assembled =>
        Len(pdf.pages) = (IF CoverSupplied THEN 1 ELSE 0) + Len(qr_files)

\* C4 amended: the title page is always emitted, so the page count is
\* 1 + the artifact count whether or not cover metadata is supplied; two
\* artifacts without cover metadata give 3 pages.
C4_PageCountWithTitlePage ==
    Assembled =>
        /\ Len(pdf.pages) = 1 + Len(qr_files)
        /\ Len(qr_files) = Cardinality(Glob(files, input_dir, use_png))

\* C4 witness: two artifacts, no cover metadata, three pages
C4_Witness ==
    /\ Assembled
    /\ ~CoverSupplied
    /\ Len(qr_files) = 2
    /\ Len(pdf.pages) = 3

\* C5: page 1 has the letter size and every page k > 1 has exactly the width
\* and height of artifact k-1, for vector and raster artifacts alike.
C5_PageSizes ==
    Assembled =>
        /\ Len(pdf.pages) = Len(qr_files) + 1
        /\ pdf.pages[1].size = <<612, 792>>
        /\ \A k \in 2..Len(pdf.pages) :
              LET art == files[input_dir][qr_files[k - 1]]
              IN /\ pdf.pages[k].size[1] = art.width
                 /\ pdf.pages[k].size[2] = art.height
                 /\ pdf.pages[k].items[1].art = art

\* C5 witness: raster artifacts of two different, non-square sizes
C5_Witness ==
    /\ Assembled
    /\ use_png
    /\ Len(pdf.pages) = 3
    /\ pdf.pages[2].size = <<300, 355>>
    /\ pdf.pages[3].size = <<50, 63>>

\* position of the first page that shows the artifact of a code, 0 if none
PageOfCode(code) ==
    LET name == code \o FormatExt(use_png)
        hits == { k \in 1..Len(PageFiles) : PageFiles[k] = name }
    IN IF hits = {} THEN 0 ELSE CHOOSE k \in hits : \A l \in hits : k <= l

NoDuplicates(l) == \A i, j \in 1..Len(l) : i # j => l[i] # l[j]

\* C6 as stated: the artifact pages follow the order of the input sequence.
C6_InputOrder ==
    (Assembled /\ tool = "generate" /\ NoDuplicates(promo_codes)) =>
        \A i, j \in 1..Len(promo_codes) :
            i < j => PageOfCode(promo_codes[i]) < PageOfCode(promo_codes[j])

\* C6 amended: the assembler sorts: the artifact pages appear in ascending
\* code-point order of the artifact file names (code text + extension),
\* whatever the order of the input.
C6_SortedOrder ==
    Assembled =>
        \A k, l \in 1..Len(PageFiles) : k < l => StrLess(PageFiles[k], PageFiles[l])

\* C6 witness: input "A" then "A-" gives page "A-.svg" before page "A.svg"
C6_Witness ==
    /\ Assembled
    /\ tool = "generate"
    /\ promo_codes = << <<"A">>, <<"A", "-">> >>
    /\ PageFiles = << <<"A", "-">> \o SvgExt, <<"A">> \o SvgExt >>

\* generate_qr_codes has ended: by return or by an exception that left it
Ended == tool = "generate" /\ pc \in {"done", "raised"}

\* the URL of the code at position i of the input
UrlOf(i) == FullUrl(base_in \o ContractDelimiter(base_in), utm_param_name, promo_codes[i])

\* C7: a code whose URL cannot be encoded is skipped alone: every other
\* code of the batch, before and after it, still gets its artifacts.
C7_FailureIsolated ==
    (Ended /\ promo_codes # <<>>) =>
        \A i \in 1..Len(promo_codes) :
            Fits(UrlOf(i)) =>
                /\ create_svg =>
                      \E k \in 1..Len(written) :
                          /\ written[k].dir = svg_dir
                          /\ written[k].name = promo_codes[i] \o SvgExt
                /\ create_png =>
                      \E k \in 1..Len(written) :
                          /\ written[k].dir = png_dir
                          /\ written[k].name = promo_codes[i] \o PngExt

\* C8: with no file of the chosen format to assemble (or no input
\* directory), compile_qr_codes_to_pdf returns failure and the file at the
\* target path is neither created nor modified.
C8_EmptyInputNoDocument ==
    (tool = "compile" /\ pc = "done" /\ Glob(files, input_dir, use_png) = {}) =>
        /\ ~success
        /\ pdf = pdf0

\* C8 witness: the directory exists, holds no raster file, and an older
\* document lies at the target path
C8_Witness ==
    /\ tool = "compile" /\ pc = "done"
    /\ input_dir \in dirs
    /\ use_png
    /\ Glob(files, input_dir, use_png) = {}
    /\ pdf0.exists
    /\ ~success

\* C9: an input without codes aborts the run with nothing written: no
\* artifact, no document, no output directory, no format subdirectory.
C9_NothingWritten ==
    (Ended /\ input_ok /\ input_ext \in {".csv", ".txt"} /\ promo_codes = <<>>) =>
        /\ files = files0
        /\ pdf = pdf0
        /\ dirs = dirs0

\* the assembler is running inside generate_qr_codes
AssemblyStarted == tool = "generate" /\ pc \in {"c_scan", "c_load", "c_build"}

\* generate_qr_codes has not reached the document step yet
BeforeAssembly ==
    pc \in {"makedirs", "read", "delimiter", "loop", "temp_mkdir", "temp_loop"}

\* directory and extension of the format the assembler reads
ReadDir == IF create_svg THEN svg_dir ELSE IF create_png THEN png_dir ELSE temp_svg_dir
ReadExt == IF ~create_svg /\ create_png THEN PngExt ELSE SvgExt

AllArtifactsWritten ==
    \A i \in 1..Len(promo_codes) :
        /\ \E k \in 1..Len(written) :
              /\ written[k].dir = ReadDir
              /\ written[k].name = promo_codes[i] \o ReadExt
        /\ (promo_codes[i] \o ReadExt) \in DOMAIN files[ReadDir]

\* C10: the assembler starts only after the artifact of every code of the
\* run, in the format it reads, has been written, and no artifact is
\* written once it has started.
C10_ArtifactsBeforeAssembly ==
    /\ [](AssemblyStarted => AllArtifactsWritten)
    /\ [](AssemblyStarted /\ pc # "c_scan" => input_dir = ReadDir)
    /\ [][~BeforeAssembly => (written' = written /\ ~BeforeAssembly')]_vars

\* C10 witness: the assembler is about to scan after a run over three codes
C10_Witness ==
    /\ tool = "generate"
    /\ pc = "c_scan"
    /\ Len(promo_codes) = 3
    /\ NoDuplicates(promo_codes)
    /\ Len(written) >= 3

\* the sizing pass has been run over a non-empty file list that is still on disk
LoadAttempted ==
    /\ pc \in {"raised", "c_build", "cleanup", "done"}
    /\ qr_files # <<>>
    /\ pc = "done" => input_dir # temp_svg_dir

\* C11: assembly is all-or-nothing: when an artifact cannot be read back
\* for sizing, assembly aborts, nothing (not even a partial document) is
\* written at the target path, and the artifact files stay as they were.
C11_AllOrNothing ==
    (LoadAttempted /\ \E i \in 1..Len(qr_files) : ~files[input_dir][qr_files[i]].readable) =>
        /\ pc = "raised"
        /\ ~success
        /\ pdf = pdf0
        /\ files = ApplyWrites(files0, written)

\* C11 witness: the first artifact is readable, the second is not, and an
\* older document lies at the target path
C11_Witness ==
    /\ pc = "raised"
    /\ tool = "generate"
    /\ Len(qr_files) >= 2
    /\ files[input_dir][qr_files[1]].readable
    /\ ~files[input_dir][qr_files[2]].readable
    /\ written # <<>>
    /\ pdf0.exists

\* the loop over the codes has just ended without an exception
LoopEnded == tool = "generate" /\ pc = "loop" /\ ~LoopHasNext(idx, promo_codes)

DistinctCodes == { promo_codes[i] : i \in 1..Len(promo_codes) }

\* the names this run wrote into directory d
WrittenNames(d) == { written[k].name : k \in { j \in 1..Len(written) : written[j].dir = d } }
WriteCount(d) == Cardinality({ j \in 1..Len(written) : written[j].dir = d })

\* directory d holds, besides what it held before, one file per distinct
\* code, named code + ext and holding the artifact of that code
OnePerCode(d, ext) ==
    /\ DOMAIN files[d] = DOMAIN files0[d] \cup { c \o ext : c \in DistinctCodes }
    /\ WrittenNames(d) = { c \o ext : c \in DistinctCodes }
    /\ Cardinality(WrittenNames(d)) = Cardinality(DistinctCodes)
    /\ WriteCount(d) = Len(promo_codes)
    /\ \A c \in DistinctCodes :
          /\ files[d][c \o ext].payload = base_url \o utm_param_name \o <<"=">> \o c
          /\ files[d][c \o ext].readable

\* C13: after a run over a list with duplicates each enabled format
\* directory holds exactly one artifact per distinct code, named code +
\* extension; the repeated code replaces the earlier file, raises nothing,
\* adds no file, and the codes after it are processed.
C13_DuplicatesOverwrite ==
    (LoopEnded /\ ~NoDuplicates(promo_codes)) =>
        /\ create_svg => OnePerCode(svg_dir, SvgExt)
        /\ create_png => OnePerCode(png_dir, PngExt)

\* C13 witness: "A", "A-", "A" into directories of an earlier run
C13_Witness ==
    /\ LoopEnded
    /\ promo_codes = << <<"A">>, <<"A", "-">>, <<"A">> >>
    /\ create_svg /\ create_png
    /\ (<<"A">> \o SvgExt) \in DOMAIN files0[svg_dir]
    /\ Cardinality(DOMAIN files[png_dir]) = 2
    /\ Len(written) = 6

\* the items of a page that are texts of the given kind
TextsOf(page, what) ==
    { page.items[k] : k \in { j \in 1..Len(page.items) : page.items[j].what = what } }

\* C16: over N >= 1 artifacts exactly N + 1 pages are emitted, the cover and
\* one page per artifact with no empty page after the last; the cover states
\* N + 1 total pages and the artifact page at 0-based position i is labelled
\* page i + 2 of N + 1.
C16_PagesAndLabels ==
    Assembled =>
        LET N == Len(qr_files)
        IN /\ N >= 1
           /\ Len(pdf.pages) = N + 1
           /\ \A t \in TextsOf(pdf.pages[1], "total_pages") : t.a = N + 1
           /\ Cardinality(TextsOf(pdf.pages[1], "total_pages")) = 1
           /\ \A t \in TextsOf(pdf.pages[1], "count") : t.a = N
           /\ \A i \in 0..(N - 1) :
                 /\ pdf.pages[i + 2].items[1].kind \in {"image", "drawing"}
                 /\ pdf.pages[i + 2].items[1].file = qr_files[i + 1]
                 /\ TextsOf(pdf.pages[i + 2], "page_number")
                        = { TextItem("page_number", "", i + 2, N + 1) }

\* C16 witness: three artifacts, four pages, the last labelled 4 of 4
C16_Witness ==
    /\ Assembled
    /\ Len(qr_files) = 3
    /\ Len(pdf.pages) = 4
    /\ TextItem("page_number", "", 4, 4) \in TextsOf(pdf.pages[4], "page_number")

\* C17: the artifact pages of the document of a run correspond one-to-one
\* to the distinct codes of that run, and the cover counts exactly those,
\* whatever the output location held before the run.
C17_OnlyCodesOfTheRun ==
    (Assembled /\ tool = "generate") =>
        /\ { PageFiles[k] : k \in 1..Len(PageFiles) }
              = { c \o FormatExt(use_png) : c \in DistinctCodes }
        /\ Len(PageFiles) = Cardinality(DistinctCodes)
        /\ \A t \in TextsOf(pdf.pages[1], "count") : t.a = Cardinality(DistinctCodes)

\* the document step of generate_qr_codes is enabled
DocumentEnabled == tool = "generate" /\ create_pdf /\ PDF_SUPPORT

\* C18: with document creation enabled the document is assembled from one
\* format: vector artifacts whenever create_svg, raster artifacts when
\* create_png without create_svg, temporary vector artifacts when neither;
\* the temporary directory is gone once the assembler has returned, with
\* success or with failure.
C18_OneFormat ==
    DocumentEnabled =>
        /\ pc \in {"c_load", "c_build"} =>
              /\ use_png = (create_png /\ ~create_svg)
              /\ input_dir = (IF create_svg THEN svg_dir
                              ELSE IF create_png THEN png_dir ELSE temp_svg_dir)
              /\ \A i \in 1..Len(qr_files) :
                    EndsWith(qr_files[i], IF create_png /\ ~create_svg THEN PngExt ELSE SvgExt)
        /\ Assembled =>
              \A k \in 2..Len(pdf.pages) :
                  /\ pdf.pages[k].items[1].kind
                        = (IF create_png /\ ~create_svg THEN "image" ELSE "drawing")
                  /\ pdf.pages[k].items[1].art.fmt
                        = (IF create_png /\ ~create_svg THEN "png" ELSE "svg")
        /\ (pc = "done" /\ promo_codes # <<>> /\ ~create_svg /\ ~create_png) =>
              /\ temp_svg_dir \notin dirs
              /\ files[temp_svg_dir] = <<>>

\* C18 witness: neither format enabled, the assembler found no file it
\* lists and returned failure, and the temporary directory is gone
C18_Witness ==
    /\ DocumentEnabled
    /\ pc = "done"
    /\ ~create_svg /\ ~create_png
    /\ promo_codes = <<HiddenCode>>
    /\ written # <<>>
    /\ ~success
    /\ temp_svg_dir \notin dirs

(***************************************************************************)
(* The png branch alone: one code, on every machine of FontEnvs, at every  *)
(* size of PngSizeRange, over every pixel of Pixels.                       *)
(***************************************************************************)
MaxFonts == 2
MaxPngSize == 60

\* the sets of at most n font entries
RECURSIVE EntrySets(_)
EntrySets(n) ==
    IF n = 0 THEN {{}}
    ELSE LET smaller == EntrySets(n - 1)
         IN smaller \cup { s \cup {e} : s \in smaller, e \in FontEntries }

\* machines on which at most MaxFonts entries open or fail to load
FontEnvs ==
    { [installed |-> i, broken |-> b] :
        <<i, b>> \in { q \in EntrySets(MaxFonts) \X EntrySets(MaxFonts) :
                         /\ q[1] \cap q[2] = {}
                         /\ Cardinality(q[1]) + Cardinality(q[2]) <= MaxFonts } }

\* below 12 the font size of line 146 is 0
PngSizeRange == 12..MaxPngSize

Channels == {0, 240, 241, 255}

\* convert('RGBA') of an image without alpha sets alpha to 255 (line 130)
Pixels == { <<r, g, b, 255>> : r \in Channels, g \in Channels, b \in Channels }

InitPng ==
    /\ tool = "generate" /\ pc = "loop"
    /\ input_ext = ".txt" /\ input_ok = TRUE
    /\ input_lines = << <<"A">> >> /\ promo_codes = input_lines
    /\ base_in = <<"u">> /\ base_url = <<"u", "?">>
    /\ utm_param_name = <<"p">>
    /\ create_svg = TRUE /\ create_png = TRUE
    /\ create_pdf = FALSE /\ PDF_SUPPORT = TRUE
    /\ pdf_title = DefaultTitle /\ pdf_prepared_for = ""
    /\ dirs = {output_dir, svg_dir, png_dir} /\ files = NoFiles /\ pdf = NoPdf
    /\ dirs0 = {} /\ files0 = NoFiles /\ pdf0 = NoPdf
    /\ input_dir = output_dir /\ use_png = FALSE
    /\ idx = 1 /\ full_url = <<>> /\ success = FALSE
    /\ written = <<>> /\ qr_files = <<>> /\ pages = <<>> /\ page_sizes = <<>>
    /\ font = "None" /\ new_data = <<>>
    /\ \/ font_env \in FontEnvs /\ png_size = 300 /\ qr_data = ModulePixels
       \/ font_env = DejaVuOnly /\ png_size \in PngSizeRange /\ qr_data = ModulePixels
       \/ font_env = DejaVuOnly /\ png_size = 300 /\ qr_data \in { <<p>> : p \in Pixels }

NextPng ==
    \/ GenerateCode
    \/ EndLoop

SpecPng == InitPng /\ [][NextPng]_vars

\* the png branch of an iteration has run (or was left by an exception)
PngAttempted ==
    tool = "generate" /\ create_png /\ full_url # <<>> /\ Fits(full_url)

\* the png files this run saved
PngWritten == { k \in 1..Len(written) : written[k].art.fmt = "png" }

\* the entries of the preference list, in order, that open on machine env
Resolving(env) ==
    SelectSeq(font_names \o mac_fonts, LAMBDA e : truetype(e, env) = e)

\* C12: font resolution never fails and never ends without a font: the first
\* entry of the list (family names, then platform paths) that resolves is
\* selected, the built-in default font is selected when none resolves, and the
\* png is still saved.
C12_FontAlwaysResolved ==
    PngAttempted =>
        /\ pc # "raised"
        /\ font = IF Resolving(font_env) # <<>> THEN Resolving(font_env)[1]
                  ELSE "default"
        /\ PngWritten # {}

\* C14: the png is png_size wide and png_size + 5 + 2 * (png_size // 12) tall,
\* and the supersampled strip of height 2 * 8 * (png_size // 12) divides by 8
\* with no remainder.
C14_CanvasSize ==
    \A k \in PngWritten :
        /\ written[k].art.width = png_size
        /\ written[k].art.height = png_size + 5 + 2 * (png_size \div 12)
        /\ text_height(png_size) = 2 * 8 * (png_size \div 12)
        /\ text_height(png_size) % 8 = 0

C14_Witness ==
    /\ PngWritten # {}
    /\ png_size % 12 # 0
    /\ png_size \div 12 >= 2

\* combined_img.paste(qr_rgba, (0, 0), qr_rgba) onto the (0, 0, 0, 0) canvas
\* (lines 239-240): the alpha band is the mask, so a pixel of alpha 255 is
\* copied and a pixel of alpha 0 leaves the canvas as it was
PasteQr(data) ==
    [k \in 1..Len(data) |-> IF data[k][4] = 255 THEN data[k] ELSE <<0, 0, 0, 0>>]

AllAbove240(item) == item[1] > 240 /\ item[2] > 240 /\ item[3] > 240

\* C15: in the QR region of the png a pixel has alpha 0 exactly when all
\* three of its colour channels were > 240; every other pixel keeps its colour
\* with alpha 255, so every alpha of the region is 0 or 255.
C15_AlphaThreshold ==
    new_data # <<>> =>
        LET region == PasteQr(new_data)
        IN /\ Len(region) = Len(qr_data)
           /\ \A k \in 1..Len(region) :
                 /\ region[k][4] = 0 <=> AllAbove240(qr_data[k])
                 /\ ~AllAbove240(qr_data[k]) =>
                       region[k] = qr_data[k] /\ region[k][4] = 255
                 /\ region[k][4] \in {0, 255}

C15_Witness ==
    /\ PngWritten # {}
    /\ \E k \in 1..Len(new_data) :
          /\ 240 \in {qr_data[k][1], qr_data[k][2], qr_data[k][3]}
          /\ \A c \in 1..3 : qr_data[k][c] >= 240
          /\ new_data[k][4] = 255

====
